---- MODULE Spec2Model ----
(***************************************************************************)
(* The simulation engine of payvest (app/models/finance.py): the           *)
(* amortization calculator, the month-by-month single-run simulator, the   *)
(* Monte Carlo engine and the scenario orchestrator; and the request       *)
(* handler that feeds it (simulate in app/routes.py).                      *)
(*                                                                         *)
(* Numbers.  The engine computes on Python floats.  The model computes on  *)
(* exact rationals <<n, d>> (d > 0, lowest terms); float rounding is not   *)
(* modelled.  Money is counted in units of 1e-8 dollars, so that           *)
(* LOAN_BALANCE_EPSILON (1e-8) is 1 unit and BUDGET_EPSILON (1e-6) is 100  *)
(* units; rates and fractions are dimensionless and keep their values      *)
(* (an APR of 12 is 1200% a year, a monthly rate of 1).                    *)
(***************************************************************************)
EXTENDS Integers, Sequences, FiniteSets, TLC

VARIABLES
    cfg,              \* the SimulationConfig of the call
    entry,            \* the function called: "run_scenarios", "_run_monte_carlo",
                      \* "_amortized_payment" or "simulate"
    pc,               \* position of the call
    scenario,         \* index into scenarios (run_scenarios), 0 for _run_monte_carlo
    allocate_invest,  \* the allocate_invest argument of the current run
    run,              \* the locals of the current _simulate_single_run call
    det,              \* (yearly, loans_bal, inv_bal) of the scenario's deterministic run
    final_net_worths, \* _run_monte_carlo: the list of terminal net worths
    results,          \* run_scenarios: key -> ScenarioResult
    all_yearly_results, \* _run_monte_carlo: the yearly list of every run
    mc_out,           \* monte_carlo_result: the MonteCarloResult of the last batch
    failure,          \* the exception that ended the call, "none" if none
    payment,          \* a call of _amortized_payment: its arguments and its outcome
    form,             \* request.form of the POST handled by simulate
    response          \* simulate: the arguments of render_template

\* the variables run_scenarios and _run_monte_carlo do not touch
request_vars == <<payment, form, response>>

vars == <<cfg, entry, pc, scenario, allocate_invest, run, det,
          final_net_worths, all_yearly_results, results, mc_out, failure,
          payment, form, response>>

-----------------------------------------------------------------------------
(* Bounds of the model *)

MaxYears == 2
MaxRuns == 2

(* app/models/constants.py, money in units of 1e-8 *)

MONTHS_PER_YEAR == 12
LOAN_BALANCE_EPSILON == 1
BUDGET_EPSILON == 100

-----------------------------------------------------------------------------
(* Exact rational arithmetic standing for the float operations *)

Abs(x) == IF x < 0 THEN -x ELSE x

RECURSIVE GCD(_, _)
GCD(a, b) == IF b = 0 THEN a ELSE GCD(b, a % b)

Norm(n, d) ==
    LET g == GCD(Abs(n), Abs(d))
        s == IF d < 0 THEN -1 ELSE 1
    IN  <<(s * n) \div g, (s * d) \div g>>

RI(i) == <<i, 1>>
Zero == <<0, 1>>
One == <<1, 1>>

RAdd(x, y) ==
    LET g == GCD(x[2], y[2])
        l == (x[2] \div g) * y[2]
    IN  Norm(x[1] * (l \div x[2]) + y[1] * (l \div y[2]), l)

RNeg(x) == <<-x[1], x[2]>>

RSub(x, y) == RAdd(x, RNeg(y))

RMul(x, y) ==
    LET a == Norm(x[1], y[2])
        b == Norm(y[1], x[2])
    IN  Norm(a[1] * b[1], a[2] * b[2])

RDiv(x, y) == RMul(x, Norm(y[2], y[1]))

RLt(x, y) == x[1] * y[2] < y[1] * x[2]

RLe(x, y) == x[1] * y[2] <= y[1] * x[2]

RMax(x, y) == IF RLt(x, y) THEN y ELSE x

RMin(x, y) == IF RLt(y, x) THEN y ELSE x

RECURSIVE RPow(_, _)
RPow(x, n) == IF n = 0 THEN One ELSE RMul(x, RPow(x, n - 1))

RECURSIVE RSum(_)
RSum(s) == IF s = <<>> THEN Zero ELSE RAdd(Head(s), RSum(Tail(s)))

RECURSIVE RSumOver(_, _)
RSumOver(s, idx) ==
    IF idx = {} THEN Zero
    ELSE LET i == CHOOSE j \in idx : TRUE
         IN  RAdd(s[i], RSumOver(s, idx \ {i}))

-----------------------------------------------------------------------------
(* The configurations the model explores *)

Loan(p, apr, t) == [principal |-> p, apr |-> apr, term_months |-> t]

\* 6 units over 3 months without interest: payment 2
LoanShort == Loan(RI(6), Zero, 3)
\* 24 units over 24 months without interest: payment 1
LoanLong == Loan(RI(24), Zero, 24)
\* 4 units over 2 months at a monthly rate of 1: payment 16/3
LoanInterest == Loan(RI(4), RI(12), 2)
\* a term of 0 months: no payment due
LoanNoTerm == Loan(RI(5), Zero, 0)
\* 240 units over 2 months: payment 120, above the budget tolerance
LoanBig == Loan(RI(240), Zero, 2)
\* 5 units over 5 months: payment 1, the balance passes through epsilon
LoanUnit == Loan(RI(5), Zero, 5)

\* (loans, monthly_budget)
Plans ==
    { <<<<>>, RI(10)>>,
      <<<<LoanShort>>, RI(10)>>,
      <<<<LoanShort, LoanLong>>, RI(3)>>, <<<<LoanShort, LoanLong>>, RI(10)>>,
      <<<<LoanInterest, LoanLong>>, RI(10)>>,
      <<<<LoanNoTerm>>, RI(3)>>,
      <<<<LoanBig>>, RI(19)>>, <<<<LoanBig>>, RI(20)>>,
      <<<<LoanUnit, LoanShort>>, RI(3)>> }

Fractions == {Zero, <<1, 4>>, One}

Strategies == {"proportional", "avalanche", "snowball"}

\* (annual_return, return_volatility, annual_fee_pct)
Markets ==
    { <<Zero, Zero, Zero>>, <<RI(12), Zero, Zero>>, <<Zero, RI(12), Zero>>,
      <<Zero, Zero, RI(24)>> }

\* standard normal deviates random.gauss may draw
ZSamples == {-2, 0, 1}

Config(plan, years, split, strategy, runs, market) ==
    [ loans |-> plan[1],
      investment |-> [ initial_amount |-> One,
                       annual_return |-> market[1],
                       annual_fee_pct |-> market[3] ],
      monthly_budget |-> plan[2],
      horizon_years |-> years,
      split_pct_invest |-> split,
      debt_strategy |-> strategy,
      monte_carlo_runs |-> runs,
      return_volatility |-> market[2] ]

\* A balance that can grow (a positive return is configured or can be drawn)
\* doubles every month: such configurations are followed for one year only,
\* which keeps every number within TLC's integers.
Growing(c) == c.investment.annual_return # Zero \/ c.return_volatility # Zero

Configs ==
    { c \in { Config(p, y, s, st, r, mk) :
                p \in Plans, y \in 1..MaxYears, s \in Fractions,
                st \in Strategies, r \in 1..MaxRuns, mk \in Markets } :
        Growing(c) => c.horizon_years = 1 }

\* run_scenarios keeps the statistics of the earlier scenarios while the later
\* ones run: random returns are followed through it for one loan list and
\* batches of two runs; _run_monte_carlo called directly covers the others.
Orchestrated(c) ==
    c.return_volatility # Zero =>
        /\ c.loans = <<LoanShort, LoanLong>>
        /\ c.split_pct_invest = <<1, 4>>
        /\ c.monte_carlo_runs <= 2

\* _run_monte_carlo takes the fraction as an argument and does not read
\* split_pct_invest: it is called with one value of it.
DirectCall(c) == c.split_pct_invest = <<1, 4>>

-----------------------------------------------------------------------------
(* _monthly_rate and _amortized_payment *)

MonthlyRate(apr) == RDiv(apr, RI(MONTHS_PER_YEAR))

AmortizedPayment(principal, monthly_rate, term_months) ==
    IF RLe(principal, Zero) THEN Zero
    ELSE IF monthly_rate = Zero THEN RDiv(principal, RI(term_months))
    ELSE LET growth == RPow(RAdd(One, monthly_rate), term_months)
             numer == RMul(monthly_rate, growth)
             denom == RSub(growth, One)
         IN  RDiv(RMul(principal, numer), denom)

\* lines 135-138: a division whose divisor is 0 raises ZeroDivisionError
\* (principal / term_months, or principal * numer / denom with denom = 0)
AmortizedPaymentDividesByZero(principal, monthly_rate, term_months) ==
    /\ RLt(Zero, principal)
    /\ IF monthly_rate = Zero
       THEN term_months = 0
       ELSE RSub(RPow(RAdd(One, monthly_rate), term_months), One) = Zero

-----------------------------------------------------------------------------
(* _simulate_single_run *)

Months(c) == c.horizon_years * MONTHS_PER_YEAR

\* mutant: "snowball" silently falls back to the proportional computation
StrategyImplementedSnowballFallsBack(c) ==
    c.debt_strategy \in {"proportional", "snowball"}

StrategyImplemented(c) == c.debt_strategy = "proportional"

BasePayments(c) ==
    [ i \in 1..Len(c.loans) |->
        IF c.loans[i].term_months > 0
        THEN AmortizedPayment(c.loans[i].principal,
                              MonthlyRate(c.loans[i].apr),
                              c.loans[i].term_months)
        ELSE Zero ]

\* mutant: the tolerance is subtracted twice
InsufficientBudgetTwiceTolerance(c) ==
    RLt(c.monthly_budget,
        RSub(RSum(BasePayments(c)), RI(2 * BUDGET_EPSILON)))

InsufficientBudget(c) ==
    RLt(c.monthly_budget, RSub(RSum(BasePayments(c)), RI(BUDGET_EPSILON)))

\* mutant: the mean and the standard deviation are exchanged
GaussSwapped(mu, sigma, z) == RAdd(sigma, RMul(RI(z), mu))

\* random.gauss(mu, sigma) with the standard normal deviate z
Gauss(mu, sigma, z) == RAdd(mu, RMul(RI(z), sigma))

\* the locals before the first month (lines 175-210)
RunInit(c, stochastic, z) ==
    LET annual_r == IF stochastic
                    THEN Gauss(c.investment.annual_return, c.return_volatility, z)
                    ELSE c.investment.annual_return
    IN  [ use_stochastic_returns |-> stochastic,
          loan_balances |-> [i \in 1..Len(c.loans) |-> c.loans[i].principal],
          loan_rates |-> [i \in 1..Len(c.loans) |-> MonthlyRate(c.loans[i].apr)],
          base_payments |-> BasePayments(c),
          investment_balance |-> c.investment.initial_amount,
          yearly |-> <<>>,
          monthly_fee |-> RDiv(c.investment.annual_fee_pct, RI(MONTHS_PER_YEAR)),
          annual_r |-> annual_r,
          monthly_return |-> RDiv(annual_r, RI(12)),
          year_interest_paid |-> Zero,
          year_principal_paid |-> Zero,
          year_invested_total |-> Zero,
          year_investment_returns |-> Zero,
          freed_payments |-> Zero,
          m |-> 0,
          active_indices |-> {},
          discretionary_budget |-> Zero,
          invest_contrib |-> Zero,
          extra_to_loans |-> [i \in 1..Len(c.loans) |-> Zero] ]

\* no _simulate_single_run call has been made
NoRun == [ m |-> 0, yearly |-> <<>> ]

ActiveIndices(loan_balances) ==
    { i \in DOMAIN loan_balances : RLt(RI(LOAN_BALANCE_EPSILON), loan_balances[i]) }

\* mutant: loan-first invests the discretionary budget while loans are active
InvestContribLoanFirstInvests(c, a, n_active, discretionary_budget, freed_payments) ==
    IF a = One \/ a = Zero
    THEN IF n_active = 0 THEN c.monthly_budget ELSE discretionary_budget
    ELSE IF n_active = 0 THEN c.monthly_budget
         ELSE RAdd(RMul(discretionary_budget, a), freed_payments)

\* mutant: the split branch leaves freed_payments out
InvestContribWithoutFreed(c, a, n_active, discretionary_budget, freed_payments) ==
    IF a = One THEN discretionary_budget
    ELSE IF n_active = 0 THEN c.monthly_budget
         ELSE IF a = Zero THEN Zero ELSE RMul(discretionary_budget, a)

\* lines 218-235: the investment contribution of the month
InvestContrib(c, a, n_active, discretionary_budget, freed_payments) ==
    IF a = One THEN discretionary_budget
    ELSE IF a = Zero
         THEN IF n_active = 0 THEN c.monthly_budget ELSE Zero
         ELSE IF n_active = 0 THEN c.monthly_budget
              ELSE RAdd(RMul(discretionary_budget, a), freed_payments)

\* mutant: every active loan receives the whole extra amount
ExtraToLoansUndivided(a, loan_balances, active_indices, discretionary_budget) ==
    [ i \in DOMAIN loan_balances |->
        IF RLt(a, One) /\ active_indices # {} /\ i \in active_indices
        THEN RMul(discretionary_budget, RSub(One, a))
        ELSE Zero ]

\* lines 236-240: the extra paydown of each loan
ExtraToLoans(a, loan_balances, active_indices, discretionary_budget) ==
    [ i \in DOMAIN loan_balances |->
        IF RLt(a, One) /\ active_indices # {} /\ i \in active_indices
        THEN RDiv(RMul(discretionary_budget, RSub(One, a)),
                  RI(Cardinality(active_indices)))
        ELSE Zero ]

\* line 253: the loan counts as paid off this month
PaidOff(balance, base_payment) ==
    RLt(balance, RI(LOAN_BALANCE_EPSILON)) /\ RLt(Zero, base_payment)

\* lines 266-282: the record of the year that ends with month m
Breakdown(m, interest, principal, loan_balances, invested, returns, balance) ==
    [ year |-> m \div MONTHS_PER_YEAR,
      loan_interest_paid |-> interest,
      loan_principal_paid |-> principal,
      loan_balance_end |-> RSum(loan_balances),
      invested_total |-> invested,
      investment_returns |-> returns,
      investment_balance_end |-> balance ]

YearEnds(m) == m % MONTHS_PER_YEAR = 0

\* mutant: the accumulators are never reset
AccumulatorKept(emit, total) == total

\* lines 279-282: an accumulator after the month, reset when the year was emitted
Accumulator(emit, total) == IF emit THEN Zero ELSE total

\* mutant: the principal applied is not capped at the balance
PrincipalAppliedUncapped(balance, base_payment, interest, extra) ==
    RAdd(RMax(Zero, RSub(base_payment, interest)), extra)

\* lines 245-248: the principal applied to an active loan
PrincipalApplied(balance, base_payment, interest, extra) ==
    RMin(balance, RAdd(RMax(Zero, RSub(base_payment, interest)), extra))

\* one iteration of the loop over the months (lines 211-282)
MonthStep(c, a, r) ==
    LET m == r.m + 1
        active_indices == ActiveIndices(r.loan_balances)
        min_loan_payments == RSumOver(r.base_payments, active_indices)
        discretionary_budget ==
            RMax(Zero, RSub(c.monthly_budget, min_loan_payments))
        invest_contrib ==
            InvestContrib(c, a, Cardinality(active_indices),
                          discretionary_budget, r.freed_payments)
        extra_to_loans ==
            ExtraToLoans(a, r.loan_balances, active_indices, discretionary_budget)
        interest == [ i \in DOMAIN r.loan_balances |->
                        IF i \in active_indices
                        THEN RMul(r.loan_balances[i], r.loan_rates[i])
                        ELSE Zero ]
        principal_applied ==
            [ i \in DOMAIN r.loan_balances |->
                IF i \in active_indices
                THEN PrincipalApplied(r.loan_balances[i], r.base_payments[i],
                                      interest[i], extra_to_loans[i])
                ELSE Zero ]
        loan_balances == [ i \in DOMAIN r.loan_balances |->
                             RSub(r.loan_balances[i], principal_applied[i]) ]
        freed == { i \in active_indices :
                     PaidOff(loan_balances[i], r.base_payments[i]) }
        freed_payments == RAdd(r.freed_payments, RSumOver(r.base_payments, freed))
        year_interest_paid == RAdd(r.year_interest_paid, RSum(interest))
        year_principal_paid == RAdd(r.year_principal_paid, RSum(principal_applied))
        year_invested_total == RAdd(r.year_invested_total, invest_contrib)
        investment_balance ==
            RMul(RMul(RAdd(r.investment_balance, invest_contrib),
                      RAdd(One, r.monthly_return)),
                 RSub(One, r.monthly_fee))
        year_investment_returns ==
            RAdd(r.year_investment_returns,
                 RSub(investment_balance, RAdd(r.investment_balance, invest_contrib)))
        emit == YearEnds(m)
    IN  [ r EXCEPT
            !.m = m,
            !.active_indices = active_indices,
            !.discretionary_budget = discretionary_budget,
            !.invest_contrib = invest_contrib,
            !.extra_to_loans = extra_to_loans,
            !.loan_balances = loan_balances,
            !.freed_payments = freed_payments,
            !.investment_balance = investment_balance,
            !.yearly = IF emit
                       THEN Append(r.yearly,
                                   Breakdown(m, year_interest_paid, year_principal_paid,
                                             loan_balances, year_invested_total,
                                             year_investment_returns, investment_balance))
                       ELSE r.yearly,
            !.year_interest_paid = Accumulator(emit, year_interest_paid),
            !.year_principal_paid = Accumulator(emit, year_principal_paid),
            !.year_invested_total = Accumulator(emit, year_invested_total),
            !.year_investment_returns = Accumulator(emit, year_investment_returns) ]

\* line 283-284: the value returned
RunResult(r) ==
    [ yearly |-> r.yearly,
      loans_remaining_balance |-> RSum(r.loan_balances),
      investment_balance |-> r.investment_balance ]

\* the loop over the months, from the locals r to the end of the horizon
RECURSIVE RunMonths(_, _, _)
RunMonths(c, a, r) ==
    IF r.m >= Months(c) THEN r ELSE RunMonths(c, a, MonthStep(c, a, r))

\* a whole deterministic call of _simulate_single_run that does not raise
SimulateDeterministic(c, a) == RunResult(RunMonths(c, a, RunInit(c, FALSE, 0)))

-----------------------------------------------------------------------------
(* _run_monte_carlo: the statistics (lines 315-367) *)

RECURSIVE Insert(_, _)
Insert(x, s) ==
    IF s = <<>> THEN <<x>>
    ELSE IF RLe(x, Head(s)) THEN <<x>> \o s
    ELSE <<Head(s)>> \o Insert(x, Tail(s))

\* mutant: the list is left in the order of the runs
Unsorted(s) == s

\* list.sort() and sorted()
RECURSIVE Sorted(_)
Sorted(s) == IF s = <<>> THEN <<>> ELSE Insert(Head(s), Sorted(Tail(s)))

\* int(0.1 * n) and int(0.9 * n), as 0-based indices
Index10(n) == n \div 10
Index90(n) == (9 * n) \div 10
IndexMedian(n) == n \div 2

\* s[i] for a 0-based Python index i
At(s, i) == s[i + 1]

SuccessProbability(nws) ==
    RDiv(RI(Cardinality({ i \in DOMAIN nws : RLt(Zero, nws[i]) })), RI(Len(nws)))

FieldMedian(year_data, field) ==
    At(Sorted([ i \in DOMAIN year_data |-> year_data[i][field] ]),
       IndexMedian(Len(year_data)))

YearlyMedians(c, all_yearly) ==
    LET YearData(year) ==
            LET having == SelectSeq(all_yearly, LAMBDA res : Len(res) > year)
            IN  [ i \in DOMAIN having |-> At(having[i], year) ]
        years == { y \in 0..(c.horizon_years - 1) : YearData(y) # <<>> }
        Median(year) ==
            [ year |-> year + 1,
              loan_interest_paid |-> FieldMedian(YearData(year), "loan_interest_paid"),
              loan_principal_paid |-> FieldMedian(YearData(year), "loan_principal_paid"),
              loan_balance_end |-> FieldMedian(YearData(year), "loan_balance_end"),
              invested_total |-> FieldMedian(YearData(year), "invested_total"),
              investment_returns |-> FieldMedian(YearData(year), "investment_returns"),
              investment_balance_end |->
                  FieldMedian(YearData(year), "investment_balance_end") ]
    IN  IF all_yearly = <<>> THEN <<>>
        ELSE [ k \in 1..Cardinality(years) |-> Median(k - 1) ]

MonteCarloStats(c, nws, all_yearly) ==
    LET sorted == Sorted(nws)
        n == Len(sorted)
    IN  [ mean_net_worth |-> RDiv(RSum(sorted), RI(n)),
          median_net_worth |-> At(sorted, IndexMedian(n)),
          percentile_10 |-> At(sorted, Index10(n)),
          percentile_90 |-> At(sorted, Index90(n)),
          success_probability |-> SuccessProbability(sorted),
          yearly_medians |-> YearlyMedians(c, all_yearly) ]

-----------------------------------------------------------------------------
(* run_scenarios *)

ScenarioKeys == <<"loan_first", "invest_first", "split">>

\* mutant: loan_first and invest_first exchange their fractions
ScenarioFractionSwapped(c, k) ==
    IF k = 1 THEN One ELSE IF k = 2 THEN Zero ELSE c.split_pct_invest

\* line 385-393: the allocate_invest of each scenario
ScenarioFraction(c, k) ==
    IF k = 1 THEN Zero ELSE IF k = 2 THEN One ELSE c.split_pct_invest

\* the label, with int(split_pct_invest * 100) for the split scenario
ScenarioName(c, k) ==
    IF k = 1 THEN <<"Loan-first">>
    ELSE IF k = 2 THEN <<"Invest-first">>
    ELSE <<"Split", (100 * c.split_pct_invest[1]) \div c.split_pct_invest[2]>>

\* lines 407-414
ScenarioResult(c, k, d, mc) ==
    [ name |-> ScenarioName(c, k),
      yearly |-> d.yearly,
      loans_remaining_balance |-> d.loans_remaining_balance,
      investment_balance |-> d.investment_balance,
      final_net_worth |-> RSub(d.investment_balance, d.loans_remaining_balance),
      monte_carlo |-> mc ]

RunsMonteCarlo(c) == c.monte_carlo_runs > 1

None == [ none |-> TRUE ]

-----------------------------------------------------------------------------
(* The state machine: one call of run_scenarios or of _run_monte_carlo *)

Init ==
    /\ cfg \in Configs
    /\ entry \in {"run_scenarios", "_run_monte_carlo"}
    /\ \/ /\ entry = "run_scenarios"
          /\ Orchestrated(cfg)
          /\ scenario = 1
          /\ allocate_invest = ScenarioFraction(cfg, 1)
          /\ pc = "det_call"
       \/ /\ entry = "_run_monte_carlo"
          /\ DirectCall(cfg)
          /\ scenario = 0
          /\ allocate_invest \in Fractions
          /\ pc = "mc_call"
    /\ run = NoRun
    /\ det = None
    /\ final_net_worths = <<>>
    /\ all_yearly_results = <<>>
    /\ results = <<>>
    /\ mc_out = None
    /\ failure = "none"
    /\ payment = None
    /\ form = None
    /\ response = None

Calling == pc \in {"det_call", "mc_call"}

\* lines 168-172
SimulateRaiseStrategy ==
    /\ Calling
    /\ ~StrategyImplemented(cfg)
    /\ failure' = "NotImplementedError"
    /\ pc' = "raised"
    /\ UNCHANGED <<cfg, entry, scenario, allocate_invest, run, det,
                   final_net_worths, all_yearly_results, results, mc_out>>
    /\ UNCHANGED request_vars

\* mutant: the budget is tested without regard to the strategy test
SimulateRaiseBudgetUnordered ==
    /\ Calling
    /\ InsufficientBudget(cfg)
    /\ failure' = "ValueError"
    /\ pc' = "raised"
    /\ UNCHANGED <<cfg, entry, scenario, allocate_invest, run, det,
                   final_net_worths, all_yearly_results, results, mc_out>>
    /\ UNCHANGED request_vars

\* lines 183-189
SimulateRaiseBudget ==
    /\ Calling
    /\ StrategyImplemented(cfg)
    /\ InsufficientBudget(cfg)
    /\ failure' = "ValueError"
    /\ pc' = "raised"
    /\ UNCHANGED <<cfg, entry, scenario, allocate_invest, run, det,
                   final_net_worths, all_yearly_results, results, mc_out>>
    /\ UNCHANGED request_vars

\* lines 166-210 with use_stochastic_returns = False
SimulateBeginDeterministic ==
    /\ pc = "det_call"
    /\ StrategyImplemented(cfg)
    /\ ~InsufficientBudget(cfg)
    /\ run' = RunInit(cfg, FALSE, 0)
    /\ pc' = "month"
    /\ UNCHANGED <<cfg, entry, scenario, allocate_invest, det,
                   final_net_worths, all_yearly_results, results, mc_out, failure>>
    /\ UNCHANGED request_vars

\* lines 166-210 with use_stochastic_returns = True
SimulateBeginStochastic ==
    /\ pc = "mc_call"
    /\ StrategyImplemented(cfg)
    /\ ~InsufficientBudget(cfg)
    /\ \E z \in ZSamples : run' = RunInit(cfg, TRUE, z)
    /\ pc' = "month"
    /\ UNCHANGED <<cfg, entry, scenario, allocate_invest, det,
                   final_net_worths, all_yearly_results, results, mc_out, failure>>
    /\ UNCHANGED request_vars

\* lines 211-282: one month
SimulateMonth ==
    /\ pc = "month"
    /\ run.m < Months(cfg)
    /\ run' = MonthStep(cfg, allocate_invest, run)
    /\ UNCHANGED <<cfg, entry, pc, scenario, allocate_invest, det,
                   final_net_worths, all_yearly_results, results, mc_out, failure>>
    /\ UNCHANGED request_vars

Returning == pc = "month" /\ run.m = Months(cfg)

\* run_scenarios, after storing the result of scenario `scenario` (line 395, 416)
NextScenario ==
    IF scenario < Len(ScenarioKeys)
    THEN /\ scenario' = scenario + 1
         /\ allocate_invest' = ScenarioFraction(cfg, scenario + 1)
         /\ pc' = "det_call"
    ELSE /\ pc' = "done"
         /\ UNCHANGED <<scenario, allocate_invest>>

\* lines 397-414 with monte_carlo_runs <= 1
DeterministicReturnPlain ==
    /\ Returning
    /\ ~run.use_stochastic_returns
    /\ ~RunsMonteCarlo(cfg)
    /\ det' = RunResult(run)
    /\ mc_out' = None
    /\ results' = results @@
           (ScenarioKeys[scenario] :> ScenarioResult(cfg, scenario, RunResult(run), None))
    /\ NextScenario
    /\ UNCHANGED <<cfg, entry, run, final_net_worths, all_yearly_results, failure>>
    /\ UNCHANGED request_vars

\* lines 397-404 and 304-305 with monte_carlo_runs > 1
DeterministicReturnMonteCarlo ==
    /\ Returning
    /\ ~run.use_stochastic_returns
    /\ RunsMonteCarlo(cfg)
    /\ det' = RunResult(run)
    /\ mc_out' = None
    /\ final_net_worths' = <<>>
    /\ all_yearly_results' = <<>>
    /\ pc' = "mc_call"
    /\ UNCHANGED <<cfg, entry, scenario, allocate_invest, run, results, failure>>
    /\ UNCHANGED request_vars

NetWorth(r) == RSub(r.investment_balance, RSum(r.loan_balances))

\* lines 307-313: a run of the batch returns and another follows
MonteCarloNextRun ==
    /\ Returning
    /\ run.use_stochastic_returns
    /\ Len(final_net_worths) + 1 < cfg.monte_carlo_runs
    /\ final_net_worths' = Append(final_net_worths, NetWorth(run))
    /\ all_yearly_results' = Append(all_yearly_results, run.yearly)
    /\ pc' = "mc_call"
    /\ UNCHANGED <<cfg, entry, scenario, allocate_invest, run, det, results,
                   mc_out, failure>>
    /\ UNCHANGED request_vars

\* lines 307-367 and 404-414: the last run returns, run_scenarios stores the scenario
MonteCarloFinishScenario ==
    /\ Returning
    /\ run.use_stochastic_returns
    /\ Len(final_net_worths) + 1 >= cfg.monte_carlo_runs
    /\ entry \in {"run_scenarios", "simulate"}
    /\ final_net_worths' = Sorted(Append(final_net_worths, NetWorth(run)))
    /\ all_yearly_results' = Append(all_yearly_results, run.yearly)
    /\ mc_out' = MonteCarloStats(cfg, Append(final_net_worths, NetWorth(run)),
                                 Append(all_yearly_results, run.yearly))
    /\ results' = results @@
           (ScenarioKeys[scenario] :>
               ScenarioResult(cfg, scenario, det,
                   MonteCarloStats(cfg, Append(final_net_worths, NetWorth(run)),
                                   Append(all_yearly_results, run.yearly))))
    /\ NextScenario
    /\ UNCHANGED <<cfg, entry, run, det, failure>>
    /\ UNCHANGED request_vars

\* lines 307-367: the last run returns, _run_monte_carlo returns to its caller
MonteCarloFinishDirect ==
    /\ Returning
    /\ run.use_stochastic_returns
    /\ Len(final_net_worths) + 1 >= cfg.monte_carlo_runs
    /\ entry = "_run_monte_carlo"
    /\ final_net_worths' = Sorted(Append(final_net_worths, NetWorth(run)))
    /\ all_yearly_results' = Append(all_yearly_results, run.yearly)
    /\ mc_out' = MonteCarloStats(cfg, Append(final_net_worths, NetWorth(run)),
                                 Append(all_yearly_results, run.yearly))
    /\ pc' = "done"
    /\ UNCHANGED <<cfg, entry, scenario, allocate_invest, run, det, results, failure>>
    /\ UNCHANGED request_vars

Next ==
    \/ SimulateRaiseStrategy
    \/ SimulateRaiseBudget
    \/ SimulateBeginDeterministic
    \/ SimulateBeginStochastic
    \/ SimulateMonth
    \/ DeterministicReturnPlain
    \/ DeterministicReturnMonteCarlo
    \/ MonteCarloNextRun
    \/ MonteCarloFinishScenario
    \/ MonteCarloFinishDirect

Spec == Init /\ [][Next]_vars

-----------------------------------------------------------------------------
(* _amortized_payment called on its own *)

\* the arguments of the call
Principals == {Zero, One, RI(4), RI(5), RI(6), RI(24), RI(240)}
MonthlyRates == {Zero, <<1, 2>>, One}
Terms == {0, 1, 2, 3, 4}

AmortizationInit ==
    /\ payment \in { [ principal |-> p, monthly_rate |-> r, term_months |-> t,
                        returned |-> None ] :
                      p \in Principals, r \in MonthlyRates, t \in Terms }
    /\ entry = "_amortized_payment"
    /\ pc = "payment_call"
    /\ failure = "none"
    /\ cfg = None
    /\ scenario = 0
    /\ allocate_invest = Zero
    /\ run = NoRun
    /\ det = None
    /\ final_net_worths = <<>>
    /\ all_yearly_results = <<>>
    /\ results = <<>>
    /\ mc_out = None
    /\ form = None
    /\ response = None

\* lines 133-138: the call returns the payment
AmortizedPaymentReturn ==
    /\ pc = "payment_call"
    /\ ~AmortizedPaymentDividesByZero(payment.principal, payment.monthly_rate,
                                      payment.term_months)
    /\ payment' = [ payment EXCEPT
                      !.returned = AmortizedPayment(payment.principal,
                                                    payment.monthly_rate,
                                                    payment.term_months) ]
    /\ pc' = "done"
    /\ UNCHANGED <<cfg, entry, scenario, allocate_invest, run, det,
                   final_net_worths, all_yearly_results, results, mc_out, failure,
                   form, response>>

\* lines 135-138: the call raises
AmortizedPaymentRaise ==
    /\ pc = "payment_call"
    /\ AmortizedPaymentDividesByZero(payment.principal, payment.monthly_rate,
                                     payment.term_months)
    /\ failure' = "ZeroDivisionError"
    /\ pc' = "raised"
    /\ UNCHANGED <<cfg, entry, scenario, allocate_invest, run, det,
                   final_net_worths, all_yearly_results, results, mc_out,
                   payment, form, response>>

AmortizationNext ==
    \/ AmortizedPaymentReturn
    \/ AmortizedPaymentRaise

AmortizationSpec == AmortizationInit /\ [][AmortizationNext]_vars

-----------------------------------------------------------------------------
(* simulate (app/routes.py): the form and its parsing *)

(* app/models/constants.py *)

DEFAULT_ANNUAL_RETURN == <<3, 50>>
DEFAULT_ANNUAL_FEE_PCT == Zero
DEFAULT_MONTE_CARLO_RUNS == 1000
DEFAULT_RETURN_VOLATILITY == <<3, 20>>
DEFAULT_SPLIT_PCT_INVEST == <<1, 2>>
DEFAULT_YEARS == 10

\* scale=0.01: a percentage becomes a fraction
Percent == <<1, 100>>

\* What form.get returns for a field: None when the field is absent, else its
\* text, which either is no number or writes the number `value`.  Amounts of
\* money are written in units of 1e-8.
Missing == [kind |-> "missing", value |-> Zero]
Text == [kind |-> "text", value |-> Zero]
Num(n, d) == [kind |-> "number", value |-> Norm(n, d)]

\* min_value / max_value: None or a number
NoBound == [given |-> FALSE, value |-> Zero]
Bound(v) == [given |-> TRUE, value |-> v]

\* lines 62-80
ValidateFloat(val, default, min_value, max_value, scale) ==
    IF val.kind # "number"
    THEN RMul(default, scale)
    ELSE LET f == val.value
         IN  IF min_value.given /\ RLt(f, min_value.value) THEN default
             ELSE IF max_value.given /\ RLt(max_value.value, f) THEN default
             ELSE RMul(f, scale)

\* lines 82-99; int() accepts the text of a whole number only
ValidateInt(val, default, min_value, max_value) ==
    IF val.kind # "number" \/ val.value[2] # 1
    THEN default
    ELSE LET i == val.value[1]
         IN  IF min_value.given /\ i < min_value.value THEN default
             ELSE IF max_value.given /\ i > max_value.value THEN default
             ELSE i

\* x or default, on floats
OrDefault(x, default) == IF x = Zero THEN default ELSE x

\* x or default, on ints
OrDefaultInt(i, default) == IF i = 0 THEN default ELSE i

\* lines 101-125; the form holds the fields of loans 0 .. Len(f.loans) - 1
ParseLoans(f) ==
    LET read == [ i \in 1..Len(f.loans) |->
                    Loan(ValidateFloat(f.loans[i].loan_amount, Zero,
                                       Bound(Zero), NoBound, One),
                         ValidateFloat(f.loans[i].apr, Zero,
                                       Bound(Zero), NoBound, Percent),
                         ValidateInt(f.loans[i].term_months, 0, Bound(0), NoBound)) ]
        Kept(l) == RLt(Zero, l.principal) /\ l.term_months > 0
    IN  SelectSeq(read, Kept)

\* lines 127-188
ParseScalars(f) ==
    [ initial_investment |->
          ValidateFloat(f.initial_investment, Zero, Bound(Zero), NoBound, One),
      monthly_budget |->
          ValidateFloat(f.monthly_budget, Zero, Bound(Zero), NoBound, One),
      annual_return |->
          OrDefault(ValidateFloat(f.annual_return, DEFAULT_ANNUAL_RETURN,
                                  Bound(Zero), NoBound, Percent),
                    DEFAULT_ANNUAL_RETURN),
      annual_fee_pct |->
          ValidateFloat(f.annual_fee_pct, DEFAULT_ANNUAL_FEE_PCT,
                        Bound(Zero), NoBound, Percent),
      monte_carlo_runs |->
          OrDefaultInt(ValidateInt(f.monte_carlo_runs, DEFAULT_MONTE_CARLO_RUNS,
                                   Bound(1), NoBound),
                       DEFAULT_MONTE_CARLO_RUNS),
      return_volatility |->
          OrDefault(ValidateFloat(f.return_volatility, DEFAULT_RETURN_VOLATILITY,
                                  Bound(Zero), NoBound, Percent),
                    DEFAULT_RETURN_VOLATILITY),
      split_pct_invest |->
          OrDefault(ValidateFloat(f.split_pct_invest,
                                  RMul(DEFAULT_SPLIT_PCT_INVEST, RI(100)),
                                  Bound(Zero), Bound(RI(100)), Percent),
                    DEFAULT_SPLIT_PCT_INVEST),
      years |->
          OrDefaultInt(ValidateInt(f.years, DEFAULT_YEARS, Bound(1), NoBound),
                       DEFAULT_YEARS) ]

\* the value of a field the form does not hold
NoField == "<missing>"

\* lines 193-199
DebtStrategy(f) ==
    LET debt_strategy == IF f.debt_strategy = NoField THEN "proportional"
                         ELSE f.debt_strategy
    IN  IF debt_strategy \notin {"avalanche", "snowball", "proportional"}
        THEN "proportional"
        ELSE debt_strategy

\* lines 208-224
SimulationConfig(f) ==
    LET scalars == ParseScalars(f)
    IN  [ loans |-> ParseLoans(f),
          investment |-> [ initial_amount |-> scalars.initial_investment,
                           annual_return |-> scalars.annual_return,
                           annual_fee_pct |-> scalars.annual_fee_pct ],
          monthly_budget |-> scalars.monthly_budget,
          horizon_years |-> scalars.years,
          split_pct_invest |-> scalars.split_pct_invest,
          debt_strategy |-> DebtStrategy(f),
          monte_carlo_runs |-> scalars.monte_carlo_runs,
          return_volatility |-> scalars.return_volatility ]

-----------------------------------------------------------------------------
(* simulate: the call of run_scenarios and the response *)

\* f"{x:,.2f}" for an amount x >= 0: the number of cents (10^6 units) nearest
\* to x, a tie going to the even one
TwoDecimals(x) ==
    LET den == x[2] * 1000000
        q == x[1] \div den
        r == x[1] % den
    IN  IF 2 * r > den \/ (2 * r = den /\ q % 2 = 1) THEN q + 1 ELSE q

\* str(e) of the exception _simulate_single_run raises (finance.py)
FailureMessage(c, raised) ==
    IF raised = "NotImplementedError"
    THEN <<"Debt strategy '", c.debt_strategy,
           "' is not implemented. Only 'proportional' is supported.">>
    ELSE <<"Monthly budget ($", TwoDecimals(c.monthly_budget),
           ") is less than the required minimum loan payments ($",
           TwoDecimals(RSum(BasePayments(c))),
           "). Please increase your monthly budget to at least cover the minimum payments.">>

\* a str
Str(parts) == [str |-> parts]

\* mutant: every exception is reported as unexpected
ErrorMessageAllUnexpected(raised, message) ==
    Str(<<"Unexpected error: ">> \o message)

\* lines 276-279: the two except clauses
ErrorMessage(raised, message) ==
    IF raised = "ValueError"
    THEN Str(message)
    ELSE Str(<<"Unexpected error: ">> \o message)

\* the truth value of an Optional[str]
Truthy(s) == s # None /\ s.str # <<>>

\* lines 288-296
ZeroSummary ==
    [ years |-> 0,
      total_loan_principal |-> Zero,
      total_scheduled_interest |-> Zero,
      monthly_budget |-> Zero,
      num_loans |-> 0,
      loan_years |-> <<>>,
      loan_terms |-> <<>> ]

\* round(term_months / 12, 2); 100 * term_months / 12 is never half-way
\* between two integers
LoanYears(term_months) == Norm((50 * term_months + 3) \div 6, 100)

\* lines 228-250
InputSummary(c) ==
    [ years |-> c.horizon_years,
      total_loan_principal |->
          RSum([ i \in 1..Len(c.loans) |-> c.loans[i].principal ]),
      total_scheduled_interest |->
          RSum([ i \in 1..Len(c.loans) |->
                   IF c.loans[i].term_months > 0
                   THEN RSub(RMul(AmortizedPayment(c.loans[i].principal,
                                                   MonthlyRate(c.loans[i].apr),
                                                   c.loans[i].term_months),
                                  RI(c.loans[i].term_months)),
                             c.loans[i].principal)
                   ELSE Zero ]),
      monthly_budget |-> c.monthly_budget,
      num_loans |-> Len(c.loans),
      loan_years |-> [ i \in 1..Len(c.loans) |-> LoanYears(c.loans[i].term_months) ],
      loan_terms |-> [ i \in 1..Len(c.loans) |-> c.loans[i].term_months ] ]

\* lines 252-263: median_net_worth or final_net_worth
GetNetWorth(s) ==
    IF s.monte_carlo # None /\ s.monte_carlo.median_net_worth # Zero
    THEN s.monte_carlo.median_net_worth
    ELSE s.final_net_worth

\* line 265: max returns the first key, in insertion order, of greatest value
BestKey(result) ==
    LET Greatest(k) ==
            \A j \in 1..Len(ScenarioKeys) :
                RLe(GetNetWorth(result[ScenarioKeys[j]]),
                    GetNetWorth(result[ScenarioKeys[k]]))
        first == CHOOSE k \in 1..Len(ScenarioKeys) :
                     /\ Greatest(k)
                     /\ \A j \in 1..(k - 1) : ~Greatest(j)
    IN  ScenarioKeys[first]

\* lines 267-275
PieChartData(result) ==
    [ key \in DOMAIN result |->
        LET invested ==
                RSum([ y \in 1..Len(result[key].yearly) |->
                         result[key].yearly[y].invested_total ])
        IN  [ invested |-> invested,
              returns |-> RSub(result[key].investment_balance, invested),
              name |-> result[key].name ] ]

\* The forms the model submits

RawLoan(amount, apr, term) ==
    [ loan_amount |-> amount, apr |-> apr, term_months |-> term ]

\* read as LoanShort
RawShort == RawLoan(Num(6, 1), Num(0, 1), Num(3, 1))
\* read as LoanBig, the rate left out
RawBig == RawLoan(Num(240, 1), Missing, Num(2, 1))
\* a term of 0 months: not kept by parse_loans
RawNoTerm == RawLoan(Num(5, 1), Num(0, 1), Num(0, 1))
\* an amount that is no number: not kept by parse_loans
RawNoAmount == RawLoan(Text, Num(1200, 1), Num(3, 1))

\* a return of 1200% a year (a monthly factor of 2) over one year, one run
BaseForm ==
    [ loans |-> <<RawShort>>,
      initial_investment |-> Num(1, 1),
      monthly_budget |-> Num(10, 1),
      annual_return |-> Num(1200, 1),
      annual_fee_pct |-> Num(0, 1),
      monte_carlo_runs |-> Num(1, 1),
      return_volatility |-> Num(1200, 1),
      split_pct_invest |-> Num(25, 1),
      years |-> Num(1, 1),
      debt_strategy |-> "proportional" ]

SplitInputs == {Missing, Text, Num(-1, 1), Num(150, 1), Num(0, 1), Num(25, 1), Num(100, 1)}
ReturnInputs == {Missing, Text, Num(-1, 1), Num(0, 1), Num(6, 1), Num(1200, 1)}
VolatilityInputs == {Missing, Text, Num(-1, 1), Num(0, 1), Num(15, 1), Num(1200, 1)}
FeeInputs == {Missing, Text, Num(-1, 1), Num(0, 1), Num(1, 1)}
YearsInputs == {Missing, Text, Num(0, 1), Num(5, 2), Num(1, 1), Num(3, 1)}
RunsInputs == {Missing, Text, Num(0, 1), Num(5, 2), Num(1, 1), Num(2, 1)}
AmountInputs == {Missing, Text, Num(-1, 1), Num(1, 1), Num(10, 1)}

\* Forms whose configuration run_scenarios follows to its end within TLC's
\* integers: whole monthly factors, one year, at most two runs.
FollowedForms ==
    { [ BaseForm EXCEPT !.loans = l, !.split_pct_invest = s,
                        !.debt_strategy = st ] :
        l \in {<<>>, <<RawShort>>, <<RawNoTerm, RawShort, RawNoAmount>>},
        s \in SplitInputs,
        st \in {"proportional", NoField, "fastest"} }
    \cup { [ BaseForm EXCEPT !.monte_carlo_runs = Num(2, 1),
                             !.initial_investment = a ] :
             a \in AmountInputs }

\* BaseForm with one scalar field replaced
Variants ==
    { [ BaseForm EXCEPT !.split_pct_invest = v ] : v \in SplitInputs }
    \cup { [ BaseForm EXCEPT !.annual_return = v ] : v \in ReturnInputs }
    \cup { [ BaseForm EXCEPT !.return_volatility = v ] : v \in VolatilityInputs }
    \cup { [ BaseForm EXCEPT !.annual_fee_pct = v ] : v \in FeeInputs }
    \cup { [ BaseForm EXCEPT !.years = v ] : v \in YearsInputs }
    \cup { [ BaseForm EXCEPT !.monte_carlo_runs = v ] : v \in RunsInputs }
    \cup { [ BaseForm EXCEPT !.initial_investment = v ] : v \in AmountInputs }

\* Forms on which run_scenarios raises before the first month: a fractional
\* monthly return, ten years or a thousand runs are not followed further.
RaisingForms ==
    { [ f EXCEPT !.debt_strategy = st ] :
        f \in Variants, st \in {"avalanche", "snowball"} }
    \cup { [ f EXCEPT !.loans = <<RawBig>>, !.monthly_budget = Num(19, 1) ] :
             f \in Variants }
    \cup { [ f EXCEPT !.loans = <<RawBig>>, !.monthly_budget = Num(19, 1),
                      !.debt_strategy = "snowball" ] :
             f \in Variants }

Forms == FollowedForms \cup RaisingForms

-----------------------------------------------------------------------------
(* simulate: the state machine of one request *)

RequestInit ==
    /\ form \in Forms
    /\ entry = "simulate"
    /\ pc = "request"
    /\ cfg = None
    /\ response = None
    /\ failure = "none"
    /\ scenario = 0
    /\ allocate_invest = Zero
    /\ run = NoRun
    /\ det = None
    /\ final_net_worths = <<>>
    /\ all_yearly_results = <<>>
    /\ results = <<>>
    /\ mc_out = None
    /\ payment = None

\* lines 60-226 and 383-395: the form is parsed, the configuration is built
\* and run_scenarios starts its first scenario
SimulateCall ==
    /\ pc = "request"
    /\ cfg' = SimulationConfig(form)
    /\ scenario' = 1
    /\ allocate_invest' = ScenarioFraction(SimulationConfig(form), 1)
    /\ pc' = "det_call"
    /\ UNCHANGED <<entry, run, det, final_net_worths, all_yearly_results,
                   results, mc_out, failure, payment, form, response>>

\* lines 228-275 and 281-307: run_scenarios returned
SimulateRenderResult ==
    /\ entry = "simulate"
    /\ pc = "done"
    /\ response' = [ result |-> results,
                     cfg |-> cfg,
                     best_scenario |-> results[BestKey(results)],
                     input_summary |-> InputSummary(cfg),
                     pie_chart_data |-> PieChartData(results),
                     form_data |-> form,
                     error_message |-> None ]
    /\ pc' = "rendered"
    /\ UNCHANGED <<cfg, entry, scenario, allocate_invest, run, det,
                   final_net_worths, all_yearly_results, results, mc_out, failure,
                   payment, form>>

\* lines 276-307: run_scenarios raised
SimulateRenderError ==
    /\ entry = "simulate"
    /\ pc = "raised"
    /\ LET error_message == ErrorMessage(failure, FailureMessage(cfg, failure))
       IN  response' = [ result |-> None,
                         cfg |-> cfg,
                         best_scenario |-> None,
                         input_summary |-> IF Truthy(error_message)
                                           THEN ZeroSummary
                                           ELSE <<>>,
                         pie_chart_data |-> None,
                         form_data |-> form,
                         error_message |-> error_message ]
    /\ pc' = "rendered"
    /\ UNCHANGED <<cfg, entry, scenario, allocate_invest, run, det,
                   final_net_worths, all_yearly_results, results, mc_out, failure,
                   payment, form>>

RequestNext ==
    \/ SimulateCall
    \/ SimulateRaiseStrategy
    \/ SimulateRaiseBudget
    \/ SimulateBeginDeterministic
    \/ SimulateBeginStochastic
    \/ SimulateMonth
    \/ DeterministicReturnPlain
    \/ DeterministicReturnMonteCarlo
    \/ MonteCarloNextRun
    \/ MonteCarloFinishScenario
    \/ SimulateRenderResult
    \/ SimulateRenderError

RequestSpec == RequestInit /\ [][RequestNext]_vars

-----------------------------------------------------------------------------
(* Properties *)

\* a step of the loop over the months
MonthTaken == pc = "month" /\ pc' = "month" /\ run'.m = run.m + 1

\* the state follows an iteration of the loop
InMonth == pc = "month" /\ run.m >= 1

NothingComputed ==
    /\ run = NoRun
    /\ det = None
    /\ results = <<>>
    /\ mc_out = None
    /\ final_net_worths = <<>>

\* C1: with debt_strategy "avalanche" or "snowball" the call ends with
\* NotImplementedError as soon as the first run is attempted: no scenario gets a
\* result and nothing is computed by the proportional code.
C1_UnimplementedStrategyRaises ==
    (cfg.debt_strategy \in {"avalanche", "snowball"} /\ ~Calling) =>
        /\ pc = "raised"
        /\ failure = "NotImplementedError"
        /\ NothingComputed

C1_Witness ==
    /\ entry = "run_scenarios"
    /\ cfg.debt_strategy = "snowball"
    /\ pc = "raised"
    /\ failure = "NotImplementedError"

\* C2: with the proportional strategy and a monthly_budget below the sum of the
\* fixed minimum payments by more than BUDGET_EPSILON, the call ends with
\* ValueError before any month is simulated: no balance is updated, no
\* YearlyBreakdown is emitted, no result is produced.
C2_InsufficientBudgetRaisesFirst ==
    ( /\ cfg.debt_strategy = "proportional"
      /\ RLt(RAdd(cfg.monthly_budget, RI(BUDGET_EPSILON)),
             RSum([ i \in DOMAIN cfg.loans |->
                      IF cfg.loans[i].term_months > 0
                      THEN AmortizedPayment(cfg.loans[i].principal,
                                            MonthlyRate(cfg.loans[i].apr),
                                            cfg.loans[i].term_months)
                      ELSE Zero ]))
      /\ ~Calling ) =>
        /\ pc = "raised"
        /\ failure = "ValueError"
        /\ NothingComputed

C2_Witness ==
    /\ entry = "run_scenarios"
    /\ cfg.debt_strategy = "proportional"
    /\ cfg.loans = <<LoanBig>>
    /\ cfg.monthly_budget = RI(19)
    /\ pc = "raised"
    /\ failure = "ValueError"
    /\ run.m = 0

\* C3: with allocate_invest = 0 (loan-first), the investment contribution of a
\* month is 0 when some loan balance exceeds LOAN_BALANCE_EPSILON at the start
\* of the month, and monthly_budget when none does.
C3_LoanFirstContribution ==
    [][ (MonthTaken /\ allocate_invest = Zero) =>
            run'.invest_contrib =
                IF \E i \in DOMAIN run.loan_balances :
                       RLt(RI(LOAN_BALANCE_EPSILON), run.loan_balances[i])
                THEN Zero
                ELSE cfg.monthly_budget ]_vars

\* loan-first, a loan list that has been paid down, the budget redirected
C3_Witness ==
    /\ InMonth
    /\ entry = "run_scenarios"
    /\ scenario = 1
    /\ cfg.loans = <<LoanShort, LoanLong>>
    /\ run.active_indices = {}
    /\ run.invest_contrib = cfg.monthly_budget
    /\ run.m > 1
    /\ run.year_invested_total = cfg.monthly_budget

C5_BalancesNonNegative ==
    /\ (InMonth /\ ~run.use_stochastic_returns) =>
           /\ \A i \in DOMAIN run.loan_balances : RLe(Zero, run.loan_balances[i])
           /\ RLe(Zero, run.investment_balance)
    /\ \A key \in DOMAIN results :
           /\ RLe(Zero, results[key].loans_remaining_balance)
           /\ RLe(Zero, results[key].investment_balance)

\* C6 (as claimed): in split mode, once freed_payments is positive it is added
\* to the investment contribution of every later month (contribution =
\* discretionary * allocate_invest + freed_payments), to the end of the horizon.
C6_FreedAddedEveryMonth ==
    [][ ( /\ MonthTaken
          /\ RLt(Zero, allocate_invest) /\ RLt(allocate_invest, One)
          /\ RLt(Zero, run.freed_payments) ) =>
            run'.invest_contrib =
                RAdd(RMul(run'.discretionary_budget, allocate_invest),
                     run.freed_payments) ]_vars

\* C6 (amended): in split mode, once freed_payments is positive it is added to
\* the investment contribution of every later month that starts with an active
\* loan; in a month that starts with no active loan the contribution is
\* monthly_budget and freed_payments is not added.
C6_FreedAddedWhileActive ==
    [][ ( /\ MonthTaken
          /\ RLt(Zero, allocate_invest) /\ RLt(allocate_invest, One)
          /\ RLt(Zero, run.freed_payments) ) =>
            run'.invest_contrib =
                IF \E i \in DOMAIN run.loan_balances :
                       RLt(RI(LOAN_BALANCE_EPSILON), run.loan_balances[i])
                THEN RAdd(RMul(run'.discretionary_budget, allocate_invest),
                          run.freed_payments)
                ELSE cfg.monthly_budget ]_vars

\* split mode, one loan paid off and freed, the other still active
C6_Witness ==
    /\ InMonth
    /\ RLt(Zero, allocate_invest) /\ RLt(allocate_invest, One)
    /\ run.active_indices # {}
    /\ RLt(RMul(run.discretionary_budget, allocate_invest), run.invest_contrib)
    /\ RLt(Zero, run.freed_payments)

\* C7: a finished Monte Carlo batch of n >= 1 runs has success_probability in
\* [0, 1] and percentile_10 <= median_net_worth <= percentile_90; the three are
\* the elements at the indices n div 10, n div 2 and 9n div 10 of the sorted
\* net worths, and the indices are within the list.
C7_MonteCarloOrder ==
    mc_out # None =>
        LET n == Len(final_net_worths)
        IN  /\ n = cfg.monte_carlo_runs
            /\ n >= 1
            /\ \A i, j \in 1..n : i <= j => RLe(final_net_worths[i], final_net_worths[j])
            /\ { n \div 10, n \div 2, (9 * n) \div 10 } \subseteq 0..(n - 1)
            /\ mc_out.percentile_10 = final_net_worths[(n \div 10) + 1]
            /\ mc_out.median_net_worth = final_net_worths[(n \div 2) + 1]
            /\ mc_out.percentile_90 = final_net_worths[((9 * n) \div 10) + 1]
            /\ RLe(Zero, mc_out.success_probability)
            /\ RLe(mc_out.success_probability, One)
            /\ RLe(mc_out.percentile_10, mc_out.median_net_worth)
            /\ RLe(mc_out.median_net_worth, mc_out.percentile_90)

\* a batch whose runs ended apart, the larger net worth drawn first
C7_Witness ==
    /\ mc_out # None
    /\ Len(final_net_worths) = cfg.monte_carlo_runs
    /\ RLt(mc_out.percentile_10, mc_out.percentile_90)
    /\ RLt(NetWorth(run), mc_out.percentile_90)
    /\ RLt(Zero, mc_out.success_probability)
    /\ RLt(mc_out.success_probability, One)

\* C8: with return_volatility = 0 and monte_carlo_runs = 1, the stochastic run
\* of _run_monte_carlo ends with the loan balance and the investment balance of
\* the deterministic run of the same configuration and fraction, and the mean,
\* the median and both percentiles equal the deterministic final net worth.
C8_ZeroVolatilityIsDeterministic ==
    ( /\ entry = "_run_monte_carlo"
      /\ pc = "done"
      /\ cfg.return_volatility = Zero
      /\ cfg.monte_carlo_runs = 1 ) =>
        LET d == SimulateDeterministic(cfg, allocate_invest)
            net_worth == RSub(d.investment_balance, d.loans_remaining_balance)
        IN  /\ RSum(run.loan_balances) = d.loans_remaining_balance
            /\ run.investment_balance = d.investment_balance
            /\ run.yearly = d.yearly
            /\ mc_out.mean_net_worth = net_worth
            /\ mc_out.median_net_worth = net_worth
            /\ mc_out.percentile_10 = net_worth
            /\ mc_out.percentile_90 = net_worth

C8_Witness ==
    /\ entry = "_run_monte_carlo"
    /\ pc = "done"
    /\ cfg.return_volatility = Zero
    /\ cfg.monte_carlo_runs = 1
    /\ cfg.investment.annual_return = RI(12)
    /\ cfg.loans = <<LoanInterest, LoanLong>>
    /\ allocate_invest = <<1, 4>>
    /\ run.use_stochastic_returns
    /\ mc_out # None

\* C9: a call of run_scenarios that returns has a result for exactly the keys
\* loan_first, invest_first and split, each the deterministic run with the
\* fraction 0, 1 and split_pct_invest, with final_net_worth = investment_balance
\* - loans_remaining_balance, and with a MonteCarloResult exactly when
\* monte_carlo_runs > 1.
C9_ThreeScenarios ==
    (entry = "run_scenarios" /\ pc = "done") =>
        /\ failure = "none"
        /\ DOMAIN results = {"loan_first", "invest_first", "split"}
        /\ \A k \in 1..3 :
              LET key == <<"loan_first", "invest_first", "split">>[k]
                  fraction == <<Zero, One, cfg.split_pct_invest>>[k]
                  d == SimulateDeterministic(cfg, fraction)
                  r == results[key]
              IN  /\ r.yearly = d.yearly
                  /\ r.loans_remaining_balance = d.loans_remaining_balance
                  /\ r.investment_balance = d.investment_balance
                  /\ r.final_net_worth =
                         RSub(r.investment_balance, r.loans_remaining_balance)
                  /\ (r.monte_carlo # None) <=> (cfg.monte_carlo_runs > 1)

C9_Witness ==
    /\ entry = "run_scenarios"
    /\ pc = "done"
    /\ cfg.monte_carlo_runs > 1
    /\ cfg.split_pct_invest = <<1, 4>>
    /\ results["split"].monte_carlo # None
    /\ results["loan_first"].investment_balance
           # results["invest_first"].investment_balance
    /\ results["split"].investment_balance
           # results["invest_first"].investment_balance

\* the records of a run: one per 12 months, numbered from 1, each holding the
\* principal paid and the investment gain of its own year
YearlyOfOwnYear ==
    pc = "month" =>
        /\ Len(run.yearly) = run.m \div 12
        /\ (run.m = cfg.horizon_years * 12) => Len(run.yearly) = cfg.horizon_years
        /\ (run.m % 12 = 0) =>
               /\ run.year_interest_paid = Zero
               /\ run.year_principal_paid = Zero
               /\ run.year_invested_total = Zero
               /\ run.year_investment_returns = Zero
        /\ \A k \in 1..Len(run.yearly) :
              LET y == run.yearly[k]
                  loans_before ==
                      IF k = 1
                      THEN RSum([i \in DOMAIN cfg.loans |-> cfg.loans[i].principal])
                      ELSE run.yearly[k - 1].loan_balance_end
                  invested_before ==
                      IF k = 1 THEN cfg.investment.initial_amount
                      ELSE run.yearly[k - 1].investment_balance_end
              IN  /\ y.year = k
                  /\ y.loan_principal_paid = RSub(loans_before, y.loan_balance_end)
                  /\ RAdd(y.invested_total, y.investment_returns)
                        = RSub(y.investment_balance_end, invested_before)

\* a month of a run leaves the records emitted so far as they are
YearlyKept ==
    MonthTaken =>
        /\ Len(run'.yearly) >= Len(run.yearly)
        /\ \A k \in 1..Len(run.yearly) : run'.yearly[k] = run.yearly[k]

\* C10: a run emits one YearlyBreakdown after every 12th month, horizon_years in
\* all, numbered 1, 2, ... in order; each record holds the totals of its own 12
\* months, the accumulators being reset at each emission; a later month never
\* changes a record already emitted.
C10_YearlyBreakdowns == []YearlyOfOwnYear /\ [][YearlyKept]_vars

\* the second year of a run that paid principal and invested in both years
C10_Witness ==
    /\ pc = "month"
    /\ run.m = 24
    /\ Len(run.yearly) = 2
    /\ RLt(Zero, run.yearly[1].loan_principal_paid)
    /\ RLt(Zero, run.yearly[2].loan_principal_paid)
    /\ RLt(Zero, run.yearly[1].invested_total)

\* C11: _amortized_payment never fails: for every principal >= 0,
\* monthly_rate >= 0 and term_months >= 0 (term_months = 0 with a positive
\* principal included) the call returns a non-negative payment and raises
\* nothing; the payment is 0 for principal <= 0 and principal / term_months for
\* monthly_rate = 0.
C11_AmortizedPaymentNeverFails ==
    (entry = "_amortized_payment" /\ pc # "payment_call") =>
        /\ failure = "none"
        /\ pc = "done"
        /\ RLe(Zero, payment.returned)
        /\ RLe(payment.principal, Zero) => payment.returned = Zero
        /\ (RLt(Zero, payment.principal) /\ payment.monthly_rate = Zero) =>
               RMul(payment.returned, RI(payment.term_months)) = payment.principal

\* C12: a configuration with both a debt_strategy that is not implemented and
\* a monthly_budget below the minimum payments (beyond the tolerance) makes
\* run_scenarios raise NotImplementedError, never ValueError: the strategy test
\* comes first.
C12_StrategyFailureFirst ==
    ( /\ entry = "run_scenarios"
      /\ cfg.debt_strategy # "proportional"
      /\ RLt(RAdd(cfg.monthly_budget, RI(BUDGET_EPSILON)),
             RSum([ i \in DOMAIN cfg.loans |->
                      IF cfg.loans[i].term_months > 0
                      THEN AmortizedPayment(cfg.loans[i].principal,
                                            MonthlyRate(cfg.loans[i].apr),
                                            cfg.loans[i].term_months)
                      ELSE Zero ]))
      /\ ~Calling ) =>
        /\ pc = "raised"
        /\ failure = "NotImplementedError"
        /\ results = <<>>

C12_Witness ==
    /\ entry = "run_scenarios"
    /\ cfg.debt_strategy = "avalanche"
    /\ cfg.loans = <<LoanBig>>
    /\ cfg.monthly_budget = RI(19)
    /\ pc = "raised"
    /\ failure = "NotImplementedError"

\* the response rendered after run_scenarios raised
FailureRendered ==
    (entry = "simulate" /\ failure # "none") =>
        /\ pc \in {"raised", "rendered"}
        /\ pc = "rendered" =>
            /\ response.result = None
            /\ response.best_scenario = None
            /\ response.error_message # None
            /\ response.error_message.str # <<>>
            /\ response.input_summary = ZeroSummary
            /\ failure = "ValueError" =>
                   /\ response.error_message.str = FailureMessage(cfg, "ValueError")
                   /\ Head(response.error_message.str) = "Monthly budget ($"
            /\ failure # "ValueError" =>
                   /\ Head(response.error_message.str) = "Unexpected error: "
                   /\ Tail(response.error_message.str) = FailureMessage(cfg, failure)

\* the step simulate takes once run_scenarios has raised
FailureHandled ==
    (entry = "simulate" /\ pc = "raised") =>
        /\ pc' = "rendered"
        /\ failure' = failure
        /\ response' # None

\* C13: when run_scenarios raises the insufficient-budget failure (ValueError)
\* or the unimplemented-strategy failure (NotImplementedError), simulate goes
\* on to render a response with result = None, best_scenario = None, a
\* non-empty error_message and the zeroed input summary.  The ValueError
\* message is reported verbatim, any other failure with the prefix
\* "Unexpected error: ".
C13_EngineFailureRendered == []FailureRendered /\ [][FailureHandled]_vars

C13_Witness ==
    /\ entry = "simulate"
    /\ pc = "rendered"
    /\ failure = "ValueError"
    /\ cfg.loans = <<LoanBig>>
    /\ cfg.monthly_budget = RI(19)
    /\ response.result = None
    /\ response.error_message = Str(FailureMessage(cfg, "ValueError"))

\* C14: every SimulationConfig simulate hands to run_scenarios has
\* split_pct_invest within [0, 1], whatever the split_pct_invest field of the
\* form holds: a value below 0 or above 100, no value, a text that is no number.
C14_SplitFractionInRange ==
    (entry = "simulate" /\ pc # "request") =>
        /\ RLe(Zero, cfg.split_pct_invest)
        /\ RLe(cfg.split_pct_invest, One)

\* v lies within the bounds of its field
Within(v, min_value, max_value) ==
    /\ min_value.given => RLe(min_value.value, v)
    /\ max_value.given => RLe(v, max_value.value)

\* what a percentage field is documented to become: the value scaled by 0.01
\* when it is a number within bounds, the default otherwise
DocumentedFraction(val, default, min_value, max_value) ==
    IF val.kind = "number" /\ Within(val.value, min_value, max_value)
    THEN RMul(val.value, <<1, 100>>)
    ELSE default

\* what a count field is documented to become
DocumentedCount(val, default, min_value) ==
    IF val.kind = "number" /\ val.value[2] = 1 /\ val.value[1] >= min_value
    THEN val.value[1]
    ELSE default

\* C15: a scalar field that is missing, not a number or out of bounds gives the
\* SimulationConfig the documented default as a fraction (annual return 0.06,
\* return volatility 0.15, annual fee 0.0, split fraction 0.5, 10 years, 1000
\* runs); a value within bounds, 0 included, reaches the engine scaled by 0.01.
C15_DocumentedDefaults ==
    (entry = "simulate" /\ pc # "request") =>
        /\ cfg.investment.annual_return =
               DocumentedFraction(form.annual_return, <<3, 50>>, Bound(Zero), NoBound)
        /\ cfg.return_volatility =
               DocumentedFraction(form.return_volatility, <<3, 20>>, Bound(Zero), NoBound)
        /\ cfg.investment.annual_fee_pct =
               DocumentedFraction(form.annual_fee_pct, Zero, Bound(Zero), NoBound)
        /\ cfg.split_pct_invest =
               DocumentedFraction(form.split_pct_invest, <<1, 2>>,
                                  Bound(Zero), Bound(RI(100)))
        /\ cfg.horizon_years = DocumentedCount(form.years, 10, 1)
        /\ cfg.monte_carlo_runs = DocumentedCount(form.monte_carlo_runs, 1000, 1)

\* the loans with a positive fixed payment whose balance has dropped to or
\* under epsilon
DroppedToEpsilon ==
    { i \in DOMAIN run.loan_balances :
        /\ RLt(Zero, run.base_payments[i])
        /\ RLt(RI(LOAN_BALANCE_EPSILON), cfg.loans[i].principal)
        /\ RLe(run.loan_balances[i], RI(LOAN_BALANCE_EPSILON)) }

\* after every month freed_payments is the sum of their fixed payments
FreedIsSumOfDropped ==
    InMonth => run.freed_payments = RSumOver(run.base_payments, DroppedToEpsilon)

\* a month never lowers freed_payments
FreedNeverDecreases ==
    MonthTaken => RLe(run.freed_payments, run'.freed_payments)

\* C16: freed_payments never decreases within a run, and at the end of every
\* month it is the sum of the fixed payments of exactly the loans with a
\* positive fixed payment whose balance has dropped to or under epsilon, each
\* counted once, a balance landing exactly on epsilon included.
C16_FreedPaymentsCounted == []FreedIsSumOfDropped /\ [][FreedNeverDecreases]_vars

\* the money the month has allocated: the fixed payments of the loans active at
\* its start, the extra paydown amounts and the investment contribution
Allocated ==
    RAdd(RAdd(RSumOver(run.base_payments, run.active_indices),
              RSum(run.extra_to_loans)),
         run.invest_contrib)

\* C17: in every month of every run that does not raise, whatever the scenario
\* and the number of loans, the money allocated does not exceed monthly_budget;
\* in split mode a freed payment is not counted both in the discretionary
\* budget and in freed_payments.
C17_AllocationWithinBudget ==
    InMonth => RLe(Allocated, cfg.monthly_budget)

\* a month lowers no balance under 0 and raises none; a loan that is not
\* active stays so
BalancesNonIncreasing ==
    MonthTaken =>
        \A i \in DOMAIN run.loan_balances :
            /\ RLe(run'.loan_balances[i], run.loan_balances[i])
            /\ RLe(Zero, run'.loan_balances[i])
            /\ i \notin ActiveIndices(run.loan_balances) =>
                   /\ i \notin ActiveIndices(run'.loan_balances)
                   /\ run'.loan_balances[i] = run.loan_balances[i]

\* the loan balance of a year's record is at most that of the year before
YearlyLoanBalanceNonIncreasing ==
    pc = "month" =>
        \A k \in 1..(Len(run.yearly) - 1) :
            RLe(run.yearly[k + 1].loan_balance_end, run.yearly[k].loan_balance_end)

\* C18: within a run every loan balance is non-increasing from month to month
\* (the principal applied lies between 0 and the balance, interest is not
\* added), a loan at or under epsilon never becomes active again, and the
\* loan_balance_end of successive YearlyBreakdown records never increases.
C18_LoanBalancesNonIncreasing ==
    []YearlyLoanBalanceNonIncreasing /\ [][BalancesNonIncreasing]_vars

C18_Witness ==
    /\ pc = "month"
    /\ Len(run.yearly) = 2
    /\ RLt(run.yearly[2].loan_balance_end, run.yearly[1].loan_balance_end)
    /\ \E i \in DOMAIN run.loan_balances :
           /\ RLt(RI(LOAN_BALANCE_EPSILON), cfg.loans[i].principal)
           /\ i \notin ActiveIndices(run.loan_balances)

====
